---- MODULE Spec2Model ----
(***************************************************************************)
(* changedetection-mcp-server: the serverless HTTP front end               *)
(* (src/api/serverless.py) and the MCP tool front end (src/server.py),     *)
(* both in front of ChangeDetectionClient.                                 *)
(*                                                                         *)
(* Python values are tagged records [t |-> <type>, v |-> <sequence>]:      *)
(*   "str"   v = the characters, one per element                           *)
(*   "lit"   v = <<s>>: a str constant of the program, kept whole          *)
(*   "fstr"  v = the pieces of a formatted str, in order                   *)
(*   "json"  v = <<d>>: a str holding the JSON text of the document d      *)
(*   "badjson" v = <<>>: a str that is not a JSON document                 *)
(*   "dict"  v = the items <<key, value>> in insertion order               *)
(*   "list"  v = the elements                                              *)
(*   "num", "bool" v = <<n>>, <<b>>;  "null" v = <<>>                      *)
(*   "object" v = <<>>: an instance with no mapping interface              *)
(***************************************************************************)
EXTENDS Integers, Sequences, FiniteSets, TLC

\* Longest string drawn for sanitize_input's inputs.
MaxLen == 3
\* Longest free string drawn for a request parameter.
MaxParamLen == 2

VARIABLES
    API_KEY,    \* server.py:20, read once at import
    DEBUG,      \* os.getenv("DEBUG"), serverless.py:282
    pc,         \* where the request in flight stands
    event,      \* async_handler's event
    context,    \* async_handler's context
    body,       \* async_handler's parsed body
    action,     \* async_handler's sanitized action
    params,     \* async_handler's sanitized params
    name,       \* call_tool's name
    arguments,  \* call_tool's arguments
    calls,      \* the outbound calls _request issued for this request
    reply,      \* what the remote service answered to the awaited call
    response,   \* what the front end returned
    data,       \* sanitize_input's argument (direct call)
    once,       \* sanitize_input(data)
    twice       \* sanitize_input(sanitize_input(data))

vars == <<API_KEY, DEBUG, pc, event, context, body, action, params, name,
          arguments, calls, reply, response, data, once, twice>>

----------------------------------------------------------------------------
(* Python values *)

Str(s) == [t |-> "str", v |-> s]
Lit(s) == [t |-> "lit", v |-> <<s>>]
FStr(parts) == [t |-> "fstr", v |-> parts]
Json(d) == [t |-> "json", v |-> <<d>>]
BadJson == [t |-> "badjson", v |-> <<>>]
Dict(items) == [t |-> "dict", v |-> items]
List(items) == [t |-> "list", v |-> items]
Num(n) == [t |-> "num", v |-> <<n>>]
Bool(b) == [t |-> "bool", v |-> <<b>>]
None == [t |-> "null", v |-> <<>>]
Object == [t |-> "object", v |-> <<>>]

\* isinstance(x, str)
IsStr(x) == x.t \in {"str", "lit", "fstr", "json", "badjson"}

\* bool(x)
Truthy(x) ==
    CASE x.t \in {"str", "dict", "list", "fstr"} -> x.v # <<>>
      [] x.t = "lit" -> x.v[1] # ""
      [] x.t = "num" -> x.v[1] # 0
      [] x.t = "bool" -> x.v[1]
      [] x.t = "null" -> FALSE
      [] OTHER -> TRUE

\* key in d, for a dict d
HasKey(d, k) == \E i \in 1..Len(d.v) : d.v[i][1] = k

\* d.get(k, default), for a dict d
Get(d, k, default) ==
    IF HasKey(d, k)
    THEN d.v[CHOOSE i \in 1..Len(d.v) : d.v[i][1] = k][2]
    ELSE default

\* The characters of the str constants the code compares inputs against.
Chars(s) ==
    CASE s = "action" -> <<"a","c","t","i","o","n">>
      [] s = "list_watches" -> <<"l","i","s","t","_","w","a","t","c","h","e","s">>
      [] s = "get_watch" -> <<"g","e","t","_","w","a","t","c","h">>
      [] s = "create_watch" -> <<"c","r","e","a","t","e","_","w","a","t","c","h">>
      [] s = "delete_watch" -> <<"d","e","l","e","t","e","_","w","a","t","c","h">>
      [] s = "trigger_check" -> <<"t","r","i","g","g","e","r","_","c","h","e","c","k">>
      [] s = "get_history" -> <<"g","e","t","_","h","i","s","t","o","r","y">>
      [] s = "system_info" -> <<"s","y","s","t","e","m","_","i","n","f","o">>
      [] s = "health_check" -> <<"h","e","a","l","t","h","_","c","h","e","c","k">>
      [] s = "OPTIONS" -> <<"O","P","T","I","O","N","S">>
      [] s = "POST" -> <<"P","O","S","T">>
      [] s = "bogus" -> <<"b","o","g","u","s">>

S(s) == Str(Chars(s))

----------------------------------------------------------------------------
(* sanitize_input, serverless.py:81-93 *)

dangerous_chars == <<"<", ">", "\"", "'", "&", ";">>

\* What str.strip() removes at both ends (the ASCII whitespace drawn here).
Whitespace == {" ", "\t", "\n"}

\* s.replace(c, ""), for a one-character c
Replace(s, c) == SelectSeq(s, LAMBDA x : x # c)

\* for char in dangerous_chars: data = data.replace(char, "")
RECURSIVE ReplaceAll(_, _)
ReplaceAll(s, i) ==
    IF i > Len(dangerous_chars) THEN s
    ELSE ReplaceAll(Replace(s, dangerous_chars[i]), i + 1)

RECURSIVE LStrip(_)
LStrip(s) == IF s # <<>> /\ Head(s) \in Whitespace THEN LStrip(Tail(s)) ELSE s

RECURSIVE RStrip(_)
RStrip(s) ==
    IF s # <<>> /\ s[Len(s)] \in Whitespace
    THEN RStrip(SubSeq(s, 1, Len(s) - 1))
    ELSE s

\* s.strip()
Strip(s) == RStrip(LStrip(s))

\* The str branch with the two steps exchanged: strip, then remove.
SanitizeStrStripFirst(s) == ReplaceAll(Strip(s), 1)

\* The str branch with the last dangerous character left in.
SanitizeStrKeepLast(s) ==
    Strip(SelectSeq(s, LAMBDA x :
        \A i \in 1..(Len(dangerous_chars) - 1) : x # dangerous_chars[i]))

\* The str branch: lines 84-88
SanitizeStr(s) == Strip(ReplaceAll(s, 1))

RECURSIVE sanitize_input(_)
sanitize_input(x) ==
    IF x.t = "str" THEN Str(SanitizeStr(x.v))
    ELSE IF x.t = "dict"
    THEN Dict([i \in 1..Len(x.v) |-> <<x.v[i][1], sanitize_input(x.v[i][2])>>])
    ELSE IF x.t = "list"
    THEN List([i \in 1..Len(x.v) |-> sanitize_input(x.v[i])])
    ELSE x

----------------------------------------------------------------------------
(* Outcomes of a call: a value returned, or an exception raised *)

Ok(val) == [kind |-> "ok", val |-> val]

\* raise ServerlessError(message, status_code, details): lines 40-47
ServerlessError(message, status_code, details) ==
    [kind |-> "ServerlessError", message |-> message,
     status_code |-> status_code, details |-> details]

\* Any other exception: type(e).__name__ and str(e)
Exception(error_type, text) ==
    [kind |-> "Exception", error_type |-> error_type, text |-> text]

AttributeError == Exception("AttributeError", Lit("object has no attribute 'get'"))
TypeError == Exception("TypeError", Lit("argument is not iterable or indexable"))

----------------------------------------------------------------------------
(* validate_request, serverless.py:50-78 *)

valid_actions ==
    <<S("list_watches"), S("get_watch"), S("create_watch"), S("delete_watch"),
      S("trigger_check"), S("get_history"), S("system_info"), S("health_check")>>

\* needle in hay, for two strs given by their characters
Substring(needle, hay) ==
    \E i \in 0..(Len(hay) - Len(needle)) :
        SubSeq(hay, i + 1, i + Len(needle)) = needle

\* "action" in body raises TypeError on a value that is no container
Iterable(b) == b.t \in {"dict", "list", "str"}

\* field in body (Python's in: a key of a dict, an element of a list, a
\* substring of a str)
Contains(b, field) ==
    CASE b.t = "dict" -> HasKey(b, field)
      [] b.t = "list" -> \E i \in 1..Len(b.v) : b.v[i] = S(field)
      [] b.t = "str" -> Substring(Chars(field), b.v)

\* x in valid_actions
InList(x, l) == \E i \in 1..Len(l) : l[i] = x

validate_request(b) ==
    IF ~Iterable(b) THEN TypeError
    ELSE IF ~Contains(b, "action")
    THEN ServerlessError(FStr(<<Lit("Missing required field: "), Lit("action")>>),
                         400, Dict(<< <<"required_fields", List(<<Lit("action")>>)>> >>))
    ELSE IF b.t # "dict" THEN TypeError
    ELSE IF ~InList(Get(b, "action", None), valid_actions)
    THEN ServerlessError(FStr(<<Lit("Invalid action: "), Get(b, "action", None)>>),
                         400, Dict(<< <<"valid_actions", List(valid_actions)>> >>))
    ELSE Ok(None)

----------------------------------------------------------------------------
(* create_response, serverless.py:96-129 *)

default_headers ==
    Dict(<< <<"Content-Type", Lit("application/json")>>,
            <<"X-Content-Type-Options", Lit("nosniff")>>,
            <<"X-Frame-Options", Lit("DENY")>>,
            <<"X-XSS-Protection", Lit("1; mode=block")>> >>)

create_response(status_code, b) ==
    Dict(<< <<"statusCode", Num(status_code)>>,
            <<"headers", default_headers>>,
            <<"body", Json(Dict(b.v \o
                << <<"_metadata", Dict(<< <<"timestamp", Lit("utcnow")>>,
                                          <<"version", Lit("1.0.0")>> >>)>> >>))>> >>)

----------------------------------------------------------------------------
(* ChangeDetectionClient, server.py:29-97 *)

BASE_URL == Lit("http://localhost:5000")

\* _request up to the await: the one call it hands to httpx, lines 41-57.
\* get and delete are called without a body, post and put with json=data.
_request(method, endpoint, d) ==
    IF method \in {"GET", "DELETE"}
    THEN [kind |-> "call", method |-> method,
          url |-> FStr(<<BASE_URL, endpoint>>), json |-> None]
    ELSE IF method \in {"POST", "PUT"}
    THEN [kind |-> "call", method |-> method,
          url |-> FStr(<<BASE_URL, endpoint>>), json |-> d]
    ELSE Exception("ValueError", FStr(<<Lit("Unsupported method: "), Lit(method)>>))

\* What the remote service may answer to one call.
RemoteReplies ==
    { [fault |-> "ReadTimeout", status |-> 0, text |-> Lit("")],
      [fault |-> "ConnectError", status |-> 0, text |-> Lit("")],
      [fault |-> "none", status |-> 404, text |-> Json(Dict(<<>>))],
      [fault |-> "none", status |-> 200, text |-> Lit("")],
      [fault |-> "none", status |-> 200, text |-> BadJson],
      [fault |-> "none", status |-> 200,
       text |-> Json(Dict(<< <<"uuid", Str(<<"a">>)>> >>))] }

\* No call has been answered yet.
NoReply == [fault |-> "unset", status |-> 0, text |-> None]

\* _request after the await: lines 59-66
request_result(answer) ==
    IF answer.fault # "none"
    THEN Exception(answer.fault, FStr(<<Lit("httpx: "), Lit(answer.fault)>>))
    ELSE IF answer.status < 200 \/ answer.status > 299
    THEN Exception("HTTPStatusError", FStr(<<Lit("Client error for url "), BASE_URL>>))
    ELSE IF ~Truthy(answer.text) THEN Ok(Dict(<<>>))
    ELSE IF answer.text.t = "json" THEN Ok(answer.text.v[1])
    ELSE Exception("JSONDecodeError", Lit("Expecting value"))

list_watches == _request("GET", Lit("/api/v1/watch"), None)

get_watch(watch_id) ==
    _request("GET", FStr(<<Lit("/api/v1/watch/"), watch_id>>), None)

\* create_watch sending the tag whatever it is.
CreateWatchAlwaysTag(url, tag) ==
    _request("POST", Lit("/api/v1/watch"),
             Dict(<< <<"url", url>>, <<"tag", tag>> >>))

create_watch(url, tag) ==
    _request("POST", Lit("/api/v1/watch"),
             Dict(<< <<"url", url>> >> \o
                  (IF Truthy(tag) THEN << <<"tag", tag>> >> ELSE <<>>)))

delete_watch(watch_id) ==
    _request("DELETE", FStr(<<Lit("/api/v1/watch/"), watch_id>>), None)

trigger_check(watch_id) ==
    _request("GET", FStr(<<Lit("/api/v1/watch/"), watch_id, Lit("/trigger")>>), None)

get_history(watch_id) ==
    _request("GET", FStr(<<Lit("/api/v1/watch/"), watch_id, Lit("/history")>>), None)

system_info == _request("GET", Lit("/api/v1/systeminfo"), None)

----------------------------------------------------------------------------
(* handle_action, serverless.py:132-201 *)

RequiredMessage(key) ==
    IF key = "watch_id" THEN Lit("watch_id is required") ELSE Lit("url is required")

\* The check rejecting only a parameter that is absent (is None).
RequiredAbsentOnly(p, key) ==
    IF p.t # "dict" THEN AttributeError
    ELSE IF Get(p, key, None) = None
    THEN ServerlessError(RequiredMessage(key), 400, Dict(<<>>))
    ELSE Ok(Get(p, key, None))

\* x = params.get(key); if not x: raise ServerlessError(key is required, 400)
Required(p, key) ==
    IF p.t # "dict" THEN AttributeError
    ELSE IF ~Truthy(Get(p, key, None))
    THEN ServerlessError(RequiredMessage(key), 400, Dict(<<>>))
    ELSE Ok(Get(p, key, None))

\* health_check reporting a key whenever the setting is not None.
HealthCheckKeyNotNone ==
    Ok(Dict(<< <<"success", Bool(TRUE)>>,
               <<"status", Lit("healthy")>>,
               <<"data", Dict(<< <<"changedetection_url", BASE_URL>>,
                                 <<"api_key_configured", Bool(API_KEY # None)>> >>)>> >>))

\* lines 179-188
health_check ==
    Ok(Dict(<< <<"success", Bool(TRUE)>>,
               <<"status", Lit("healthy")>>,
               <<"data", Dict(<< <<"changedetection_url", BASE_URL>>,
                                 <<"api_key_configured", Bool(Truthy(API_KEY))>> >>)>> >>))

\* except Exception as e: raise ServerlessError(...), lines 195-201
Converted(e, a) ==
    IF e.kind = "Exception"
    THEN ServerlessError(FStr(<<Lit("Internal server error: "), e.text>>), 500,
                         Dict(<< <<"action", a>>, <<"error_type", Lit(e.error_type)>> >>))
    ELSE e

\* The branch taken, up to the await of the client's call: lines 135-191
Route(a, p) ==
    IF a = S("list_watches") THEN list_watches
    ELSE IF a = S("get_watch")
    THEN LET watch_id == Required(p, "watch_id")
         IN  IF watch_id.kind = "ok" THEN get_watch(watch_id.val) ELSE watch_id
    ELSE IF a = S("create_watch")
    THEN LET url == Required(p, "url")
         IN  IF url.kind = "ok" THEN create_watch(url.val, Get(p, "tag", None)) ELSE url
    ELSE IF a = S("delete_watch")
    THEN LET watch_id == Required(p, "watch_id")
         IN  IF watch_id.kind = "ok" THEN delete_watch(watch_id.val) ELSE watch_id
    ELSE IF a = S("trigger_check")
    THEN LET watch_id == Required(p, "watch_id")
         IN  IF watch_id.kind = "ok" THEN trigger_check(watch_id.val) ELSE watch_id
    ELSE IF a = S("get_history")
    THEN LET watch_id == Required(p, "watch_id")
         IN  IF watch_id.kind = "ok" THEN get_history(watch_id.val) ELSE watch_id
    ELSE IF a = S("system_info") THEN system_info
    ELSE IF a = S("health_check") THEN health_check
    ELSE ServerlessError(FStr(<<Lit("Unknown action: "), a>>), 400, Dict(<<>>))

\* handle_action until it awaits a call, returns or raises
handle_action(a, p) == Converted(Route(a, p), a)

\* handle_action once the awaited call has returned or raised
handle_action_resumed(a, outcome) ==
    IF outcome.kind = "ok"
    THEN Ok(Dict(<< <<"success", Bool(TRUE)>>, <<"data", outcome.val>> >>))
    ELSE Converted(outcome, a)

----------------------------------------------------------------------------
(* async_handler, serverless.py:204-284 *)

\* json.loads(s) for a str s: line 217
json_loads(s) ==
    IF s.t = "json" THEN Ok(s.v[1])
    ELSE ServerlessError(Lit("Invalid JSON in request body"), 400,
                         Dict(<< <<"error", Lit("Expecting value")>> >>))

\* The two except clauses, lines 253-284
Caught(e) ==
    IF e.kind = "ServerlessError"
    THEN create_response(e.status_code,
             Dict(<< <<"success", Bool(FALSE)>>,
                     <<"error", e.message>>,
                     <<"details", e.details>> >>))
    ELSE create_response(500,
             Dict(<< <<"success", Bool(FALSE)>>,
                     <<"error", Lit("Internal server error")>>,
                     <<"message", IF DEBUG = Lit("true") THEN e.text
                                  ELSE Lit("An unexpected error occurred")>> >>))

\* Line 206 stands before the try: context.get on a truthy context that
\* has no get raises to the caller.
RequestIdRaises(ctx) == Truthy(ctx) /\ ctx.t # "dict"

\* Lines 206-212: the request id, then the CORS preflight
HttpInvoke(ev, ctx) ==
    /\ pc = "idle"
    /\ event' = ev
    /\ context' = ctx
    /\ IF RequestIdRaises(ctx)
       THEN pc' = "raised" /\ response' = None
       ELSE IF ev.t # "dict"
       THEN pc' = "done" /\ response' = Caught(AttributeError)
       ELSE IF Get(ev, "httpMethod", None) = S("OPTIONS")
       THEN /\ pc' = "done"
            /\ response' = create_response(200,
                   Dict(<< <<"message", Lit("CORS preflight OK")>> >>))
       ELSE pc' = "parse" /\ response' = None
    /\ UNCHANGED <<API_KEY, DEBUG, body, action, params, name, arguments,
                   calls, reply, data, once, twice>>

\* Lines 215-223
HttpParse ==
    /\ pc = "parse"
    /\ LET body_str == Get(event, "body", Json(Dict(<<>>)))
           r == IF IsStr(body_str) THEN json_loads(body_str) ELSE Ok(body_str)
       IN  IF r.kind = "ok"
           THEN body' = r.val /\ pc' = "validate" /\ UNCHANGED response
           ELSE pc' = "done" /\ response' = Caught(r) /\ UNCHANGED body
    /\ UNCHANGED <<API_KEY, DEBUG, event, context, action, params, name,
                   arguments, calls, reply, data, once, twice>>

\* The validation step run on the sanitized body: sanitize, then validate.
HttpValidateSanitized ==
    /\ pc = "validate"
    /\ LET r == validate_request(sanitize_input(body))
       IN  IF r.kind = "ok"
           THEN pc' = "sanitize" /\ UNCHANGED response
           ELSE pc' = "done" /\ response' = Caught(r)
    /\ UNCHANGED <<API_KEY, DEBUG, event, context, body, action, params, name,
                   arguments, calls, reply, data, once, twice>>

\* Line 226
HttpValidate ==
    /\ pc = "validate"
    /\ LET r == validate_request(body)
       IN  IF r.kind = "ok"
           THEN pc' = "sanitize" /\ UNCHANGED response
           ELSE pc' = "done" /\ response' = Caught(r)
    /\ UNCHANGED <<API_KEY, DEBUG, event, context, body, action, params, name,
                   arguments, calls, reply, data, once, twice>>

\* Lines 229-240: the log line calls params.keys() when params is truthy
HttpSanitize ==
    /\ pc = "sanitize"
    /\ action' = sanitize_input(Get(body, "action", None))
    /\ params' = sanitize_input(Get(body, "params", Dict(<<>>)))
    /\ IF Truthy(params') /\ params'.t # "dict"
       THEN pc' = "done" /\ response' = Caught(AttributeError)
       ELSE pc' = "dispatch" /\ UNCHANGED response
    /\ UNCHANGED <<API_KEY, DEBUG, event, context, body, name, arguments,
                   calls, reply, data, once, twice>>

\* Line 243 until handle_action awaits the client, and lines 251-269 when
\* it returns or raises without a call
HttpDispatch ==
    /\ pc = "dispatch"
    /\ LET r == handle_action(action, params)
       IN  IF r.kind = "call"
           THEN /\ calls' = Append(calls, r)
                /\ pc' = "await"
                /\ UNCHANGED response
           ELSE /\ pc' = "done"
                /\ response' = IF r.kind = "ok" THEN create_response(200, r.val)
                               ELSE Caught(r)
                /\ UNCHANGED calls
    /\ UNCHANGED <<API_KEY, DEBUG, event, context, body, action, params, name,
                   arguments, reply, data, once, twice>>

\* The awaited call ends; lines 243-269 after it
HttpResume(answer) ==
    /\ pc = "await"
    /\ reply' = answer
    /\ LET r == handle_action_resumed(action, request_result(answer))
       IN  response' = IF r.kind = "ok" THEN create_response(200, r.val)
                       ELSE Caught(r)
    /\ pc' = "done"
    /\ UNCHANGED <<API_KEY, DEBUG, event, context, body, action, params, name,
                   arguments, calls, data, once, twice>>

----------------------------------------------------------------------------
(* call_tool, server.py:195-260 *)

TextContent(text) ==
    List(<< Dict(<< <<"type", Lit("text")>>, <<"text", text>> >>) >>)

\* x = arguments.get(key); if not x: return the text "Error: key is required"
ToolRequired(args, key) ==
    IF args.t # "dict" THEN AttributeError
    ELSE IF ~Truthy(Get(args, key, None))
    THEN [kind |-> "return",
          val |-> TextContent(FStr(<<Lit("Error: "), RequiredMessage(key)>>))]
    ELSE Ok(Get(args, key, None))

\* A value returned before any call is call_tool's result
Returned(r) == IF r.kind = "return" THEN Ok(r.val) ELSE r

\* The clause catching the HTTP client's errors only.
ToolCaughtHttpOnly(e) ==
    IF e.kind = "Exception"
         /\ e.error_type \in {"ReadTimeout", "ConnectError", "HTTPStatusError"}
    THEN Ok(TextContent(FStr(<<Lit("Error: "), e.text>>)))
    ELSE e

\* except Exception as e: lines 258-260
ToolCaught(e) ==
    IF e.kind = "Exception"
    THEN Ok(TextContent(FStr(<<Lit("Error: "), e.text>>)))
    ELSE e

\* The branch taken, up to the await of the client's call: lines 199-256
ToolRoute(n, args) ==
    IF n = S("list_watches") THEN list_watches
    ELSE IF n = S("get_watch")
    THEN LET watch_id == ToolRequired(args, "watch_id")
         IN  IF watch_id.kind = "ok" THEN get_watch(watch_id.val) ELSE Returned(watch_id)
    ELSE IF n = S("create_watch")
    THEN LET url == ToolRequired(args, "url")
         IN  IF url.kind = "ok" THEN create_watch(url.val, Get(args, "tag", None))
             ELSE Returned(url)
    ELSE IF n = S("delete_watch")
    THEN LET watch_id == ToolRequired(args, "watch_id")
         IN  IF watch_id.kind = "ok" THEN delete_watch(watch_id.val) ELSE Returned(watch_id)
    ELSE IF n = S("trigger_check")
    THEN LET watch_id == ToolRequired(args, "watch_id")
         IN  IF watch_id.kind = "ok" THEN trigger_check(watch_id.val) ELSE Returned(watch_id)
    ELSE IF n = S("get_history")
    THEN LET watch_id == ToolRequired(args, "watch_id")
         IN  IF watch_id.kind = "ok" THEN get_history(watch_id.val) ELSE Returned(watch_id)
    ELSE IF n = S("system_info") THEN system_info
    ELSE Ok(TextContent(FStr(<<Lit("Error: "), Lit("Unknown tool '"), n, Lit("'")>>)))

\* call_tool until it awaits a call or returns
call_tool(n, args) == ToolCaught(ToolRoute(n, args))

\* call_tool once the awaited call has returned or raised
call_tool_resumed(outcome) ==
    IF outcome.kind = "ok" THEN Ok(TextContent(FStr(<<outcome.val>>)))
    ELSE ToolCaught(outcome)

ToolInvoke(n, args) ==
    /\ pc = "idle"
    /\ name' = n
    /\ arguments' = args
    /\ LET r == call_tool(n, args)
       IN  IF r.kind = "call"
           THEN calls' = Append(calls, r) /\ pc' = "tool_await" /\ UNCHANGED response
           ELSE IF r.kind = "ok"
           THEN pc' = "tool_done" /\ response' = r.val /\ UNCHANGED calls
           ELSE pc' = "tool_raised" /\ UNCHANGED <<response, calls>>
    /\ UNCHANGED <<API_KEY, DEBUG, event, context, body, action, params,
                   reply, data, once, twice>>

ToolResume(answer) ==
    /\ pc = "tool_await"
    /\ reply' = answer
    /\ LET r == call_tool_resumed(request_result(answer))
       IN  IF r.kind = "ok"
           THEN pc' = "tool_done" /\ response' = r.val
           ELSE pc' = "tool_raised" /\ UNCHANGED response
    /\ UNCHANGED <<API_KEY, DEBUG, event, context, body, action, params, name,
                   arguments, calls, data, once, twice>>

----------------------------------------------------------------------------
(* sanitize_input called directly, once and on its own result *)

Sanitize(x) ==
    /\ pc = "idle"
    /\ data' = x
    /\ once' = sanitize_input(x)
    /\ pc' = "sanitized"
    /\ UNCHANGED <<API_KEY, DEBUG, event, context, body, action, params, name,
                   arguments, calls, reply, response, twice>>

SanitizeAgain ==
    /\ pc = "sanitized"
    /\ twice' = sanitize_input(once)
    /\ pc' = "resanitized"
    /\ UNCHANGED <<API_KEY, DEBUG, event, context, body, action, params, name,
                   arguments, calls, reply, response, data, once>>

----------------------------------------------------------------------------
(* The inputs drawn *)

\* All sequences over alphabet of length at most n
Strings(alphabet, n) == UNION {[1..k -> alphabet] : k \in 0..n}

\* http://example.com<script>
ExampleUrl ==
    Str(<<"h","t","t","p",":","/","/","e","x","a","m","p","l","e",".","c","o","m",
          "<","s","c","r","i","p","t",">">>)

ParamAlphabet == {"a", "<", " "}

ParamValues ==
    {Str(s) : s \in Strings(ParamAlphabet, MaxParamLen)}
        \cup {ExampleUrl, None, Num(0), Num(5), List(<<Str(<<"<">>)>>)}

TagValues == {Str(<<>>), Str(<<"a">>), Str(<<" ", ";">>), None}

ParamDicts ==
    {Dict(<<>>)}
        \cup {Dict(<< <<"watch_id", w>> >>) : w \in ParamValues}
        \cup {Dict(<< <<"url", u>> >>) : u \in ParamValues}
        \cup {Dict(<< <<"url", u>>, <<"tag", g>> >>) : u \in ParamValues, g \in TagValues}
        \cup {Dict(<< <<"tag", g>> >>) : g \in TagValues}

\* What may stand for params, or for a tool's arguments
ParamInputs ==
    ParamDicts \cup {None, List(<<>>), Str(<<"a">>), Num(0), List(<<Str(<<"a">>)>>)}

ActionInputs ==
    {valid_actions[i] : i \in 1..Len(valid_actions)}
        \cup {S("bogus"), Str(Chars("get_watch") \o <<";">>),
              Str(<<" ">> \o Chars("list_watches")), Num(1), None,
              List(<<S("list_watches")>>)}

\* The documents a request body may hold
Bodies ==
    {Dict(<< <<"action", a>>, <<"params", p>> >>) : a \in ActionInputs, p \in ParamInputs}
        \cup {Dict(<< <<"action", a>> >>) : a \in ActionInputs}
        \cup {Dict(<< <<"params", p>> >>) : p \in {Dict(<<>>), None}}
        \cup {Dict(<<>>), None, Num(5), Bool(TRUE), S("action"), Str(<<"a">>),
              List(<<>>), List(<<S("action")>>)}

Events ==
    {Dict(<< <<"httpMethod", S("POST")>>, <<"body", Json(b)>> >>) : b \in Bodies}
        \cup {Dict(<< <<"httpMethod", S("POST")>>, <<"body", b>> >>) :
                 b \in {None, Num(5), Dict(<<>>),
                        Dict(<< <<"action", S("system_info")>> >>)}}
        \cup {Dict(<< <<"httpMethod", S("POST")>>, <<"body", BadJson>> >>),
              Dict(<< <<"httpMethod", S("POST")>> >>),
              Dict(<< <<"httpMethod", S("OPTIONS")>> >>),
              Dict(<< <<"httpMethod", S("OPTIONS")>>, <<"body", BadJson>> >>),
              Dict(<<>>), None, List(<<>>)}

Contexts == {None, Dict(<< <<"requestId", Str(<<"a">>)>> >>), Dict(<<>>), Object}

ToolNames ==
    {valid_actions[i] : i \in 1..Len(valid_actions)} \cup {S("bogus"), None}

SanitizeAlphabet ==
    {dangerous_chars[i] : i \in 1..Len(dangerous_chars)} \cup Whitespace \cup {"a", "/"}

NestedLeaves ==
    {Str(s) : s \in Strings(ParamAlphabet, MaxParamLen)} \cup {None, Num(1), Bool(TRUE)}

SanitizeInputs ==
    {Str(s) : s \in Strings(SanitizeAlphabet, MaxLen)}
        \cup NestedLeaves \cup {ExampleUrl}
        \cup {List(<<x, y>>) : x \in NestedLeaves, y \in {Str(<<" ", "a">>), Num(1)}}
        \cup {Dict(<< <<" k<", x>>, <<"j", List(<<x>>)>> >>) : x \in NestedLeaves}
        \cup {List(<< Dict(<< <<"k;", List(<<x, Dict(<< <<"", x>> >>)>>)>> >>) >>) :
                 x \in NestedLeaves}
        \cup {List(<<>>), Dict(<<>>)}

----------------------------------------------------------------------------
(* The specification *)

\* The front end returned, or raised: the next request starts afresh
Finish ==
    /\ pc \in {"done", "raised", "tool_done", "tool_raised", "resanitized"}
    /\ pc' = "idle"
    /\ event' = None /\ context' = None /\ body' = None
    /\ action' = None /\ params' = None
    /\ name' = None /\ arguments' = None
    /\ calls' = <<>>
    /\ reply' = NoReply
    /\ response' = None
    /\ data' = None /\ once' = None /\ twice' = None
    /\ UNCHANGED <<API_KEY, DEBUG>>

Init ==
    /\ API_KEY \in {Lit(""), Lit("key")}
    /\ DEBUG \in {Lit("true"), None}
    /\ pc = "idle"
    /\ event = None /\ context = None /\ body = None
    /\ action = None /\ params = None
    /\ name = None /\ arguments = None
    /\ calls = <<>>
    /\ reply = NoReply
    /\ response = None
    /\ data = None /\ once = None /\ twice = None

\* handler(event, context) is called: serverless.py:287-299
HttpRequest ==
    pc = "idle" /\ \E ev \in Events, ctx \in Contexts : HttpInvoke(ev, ctx)

HttpReply ==
    pc = "await" /\ \E answer \in RemoteReplies : HttpResume(answer)

\* The MCP server hands a tool call to call_tool
ToolRequest ==
    pc = "idle" /\ \E n \in ToolNames, args \in ParamInputs : ToolInvoke(n, args)

ToolReply ==
    pc = "tool_await" /\ \E answer \in RemoteReplies : ToolResume(answer)

SanitizeCall ==
    pc = "idle" /\ \E x \in SanitizeInputs : Sanitize(x)

Next ==
    \/ HttpRequest
    \/ HttpParse
    \/ HttpValidate
    \/ HttpSanitize
    \/ HttpDispatch
    \/ HttpReply
    \/ ToolRequest
    \/ ToolReply
    \/ SanitizeCall
    \/ SanitizeAgain
    \/ Finish

Spec == Init /\ [][Next]_vars

----------------------------------------------------------------------------
(* What the claims speak of *)

WatchIdActions ==
    {S("get_watch"), S("delete_watch"), S("trigger_check"), S("get_history")}

CoreActions ==
    WatchIdActions \cup {S("list_watches"), S("create_watch"), S("system_info")}

\* The parameter the action table requires for a, "" when it requires none
RequiredField(a) ==
    IF a \in WatchIdActions THEN "watch_id"
    ELSE IF a = S("create_watch") THEN "url"
    ELSE ""

\* p holds a non-empty value for key
Present(p, key) == p.t = "dict" /\ Truthy(Get(p, key, None))

\* a requires a parameter that p does not hold, or holds empty
Missing(a, p) == RequiredField(a) # "" /\ ~Present(p, RequiredField(a))

\* d[key] when d is a dict holding key, None otherwise
Field(d, key) == IF d.t = "dict" THEN Get(d, key, None) ELSE None

\* async_handler has sanitized the request: action and params are what
\* handle_action is given
Sanitized == action # None

\* The event carried a body that was parsed (or was no str): body holds it
Parsed ==
    /\ pc \in {"validate", "sanitize", "dispatch", "await", "done"}
    /\ event.t = "dict"
    /\ Get(event, "httpMethod", None) # S("OPTIONS")
    /\ LET body_str == Get(event, "body", Json(Dict(<<>>)))
       IN  IsStr(body_str) => body_str.t = "json"

StatusCode == Get(response, "statusCode", None)

\* The JSON document of the response's body
Payload == Get(response, "body", None).v[1]

\* The awaited call failed: a transport fault, a status that is not 2xx, or
\* a text that is not JSON
RemoteFailed ==
    reply.fault \notin {"unset", "none"}
        \/ (reply.fault = "none" /\ (reply.status # 200 \/ reply.text = BadJson))

\* text is piece, or a formatted str that has piece in it
Mentions(text, piece) ==
    text = piece \/ (text.t = "fstr" /\ \E i \in 1..Len(text.v) : text.v[i] = piece)

\* The text of a tool's reply starts with "Error: "
StartsWithError(text) ==
    text.t = "fstr" /\ text.v # <<>> /\ text.v[1] = Lit("Error: ")

----------------------------------------------------------------------------
(* C1 *)

\* C1: the HTTP front end returns a well-formed response (statusCode,
\* headers, a JSON body) for every event and every context: no exception
\* escapes handler/async_handler to the caller.
C1_NoExceptionEscapes ==
    /\ pc # "raised"
    /\ pc = "done" =>
          /\ response.t = "dict"
          /\ StatusCode.t = "num"
          /\ Get(response, "headers", None).t = "dict"
          /\ Get(response, "body", None).t = "json"

----------------------------------------------------------------------------
(* C2 *)

----------------------------------------------------------------------------
(* C3 *)

ExpectedMethod(a) ==
    IF a = S("create_watch") THEN "POST"
    ELSE IF a = S("delete_watch") THEN "DELETE"
    ELSE "GET"

\* The path of the action table, watch_id substituted
ExpectedPath(a, p) ==
    CASE a = S("list_watches") -> Lit("/api/v1/watch")
      [] a = S("create_watch") -> Lit("/api/v1/watch")
      [] a = S("system_info") -> Lit("/api/v1/systeminfo")
      [] a = S("get_watch") -> FStr(<<Lit("/api/v1/watch/"), Get(p, "watch_id", None)>>)
      [] a = S("delete_watch") -> FStr(<<Lit("/api/v1/watch/"), Get(p, "watch_id", None)>>)
      [] a = S("trigger_check") ->
            FStr(<<Lit("/api/v1/watch/"), Get(p, "watch_id", None), Lit("/trigger")>>)
      [] a = S("get_history") ->
            FStr(<<Lit("/api/v1/watch/"), Get(p, "watch_id", None), Lit("/history")>>)

\* {url}, plus tag only when a non-empty tag was given; no body otherwise
ExpectedBody(a, p) ==
    IF a # S("create_watch") THEN None
    ELSE IF Present(p, "tag")
    THEN Dict(<< <<"url", Get(p, "url", None)>>, <<"tag", Get(p, "tag", None)>> >>)
    ELSE Dict(<< <<"url", Get(p, "url", None)>> >>)

ExpectedCall(a, p) ==
    [kind |-> "call", method |-> ExpectedMethod(a),
     url |-> FStr(<<BASE_URL, ExpectedPath(a, p)>>), json |-> ExpectedBody(a, p)]

----------------------------------------------------------------------------
(* C4 *)

\* C4: every non-OPTIONS request whose parsed body does not contain the
\* field action, whatever else the body is, is answered 400 with
\* details.required_fields containing "action".
C4_MissingAction400 ==
    (pc = "done" /\ Parsed /\ ~(body.t = "dict" /\ HasKey(body, "action"))) =>
        /\ StatusCode = Num(400)
        /\ LET details == Get(Payload, "details", Dict(<<>>))
               fields == Get(details, "required_fields", List(<<>>))
           IN  \E i \in 1..Len(fields.v) : fields.v[i] = Lit("action")

----------------------------------------------------------------------------
(* C5 *)

\* The text of the exception the failed call raised
ExceptionText == request_result(reply).text

\* C5: when the remote call of a core action fails, the HTTP front end
\* answers 500 with success = false, and the exception's text is in the
\* response only when DEBUG is "true".
C5_NoExceptionTextUnlessDebug ==
    (pc = "done" /\ RemoteFailed) =>
        /\ StatusCode = Num(500)
        /\ Get(Payload, "success", None) = Bool(FALSE)
        /\ DEBUG # Lit("true") =>
              /\ ~Mentions(Get(Payload, "error", None), ExceptionText)
              /\ ~Mentions(Get(Payload, "message", None), ExceptionText)

----------------------------------------------------------------------------
(* C6 *)

\* C6: sanitization is idempotent: for a str, a mapping, a sequence or any
\* nesting of these, sanitize_input(sanitize_input(x)) = sanitize_input(x);
\* so it is for the action and the params async_handler has sanitized.
C6_Idempotent ==
    /\ pc = "resanitized" => twice = once
    /\ Sanitized => (sanitize_input(params) = params /\ sanitize_input(action) = action)

\* C6 witness: a sequence that the first pass changed and the second left
\* alone.
C6_Witness ==
    /\ pc = "resanitized"
    /\ data.t = "list"
    /\ once # data
    /\ twice = once

----------------------------------------------------------------------------
(* C7 *)

\* The characters the claim says are removed
Stripped == {"<", ">", "\"", "'", "&", ";"}

\* r is k without its leading and trailing whitespace
IsTrimOf(k, r) ==
    /\ r # <<>> => (r[1] \notin Whitespace /\ r[Len(r)] \notin Whitespace)
    /\ \E i \in 1..(Len(k) + 1), j \in 0..Len(k) :
          /\ r = SubSeq(k, i, j)
          /\ \A m \in 1..(i - 1) : k[m] \in Whitespace
          /\ \A m \in (j + 1)..Len(k) : k[m] \in Whitespace

\* y is x with every str in it stripped of the six characters and trimmed,
\* and nothing else changed
RECURSIVE SanitizedAs(_, _)
SanitizedAs(x, y) ==
    CASE x.t = "str" ->
            /\ y.t = "str"
            /\ IsTrimOf(SelectSeq(x.v, LAMBDA c : c \notin Stripped), y.v)
      [] x.t = "dict" ->
            /\ y.t = "dict"
            /\ Len(y.v) = Len(x.v)
            /\ \A i \in 1..Len(x.v) :
                  /\ y.v[i][1] = x.v[i][1]
                  /\ SanitizedAs(x.v[i][2], y.v[i][2])
      [] x.t = "list" ->
            /\ y.t = "list"
            /\ Len(y.v) = Len(x.v)
            /\ \A i \in 1..Len(x.v) : SanitizedAs(x.v[i], y.v[i])
      [] OTHER -> y = x

\* http://example.comscript
ExampleUrlSanitized ==
    Str(<<"h","t","t","p",":","/","/","e","x","a","m","p","l","e",".","c","o","m",
          "s","c","r","i","p","t">>)

\* C7: in every str at any depth sanitize_input removes exactly the
\* characters < > " ' & ; and then trims the whitespace at both ends, keeping
\* the other characters in order; keys, the length and order of sequences
\* and the values that are no str are unchanged. The url
\* http://example.com<script> reaches the body of POST /api/v1/watch as
\* http://example.comscript.
C7_StripsExactly ==
    /\ pc \in {"sanitized", "resanitized"} => SanitizedAs(data, once)
    /\ Sanitized =>
          /\ SanitizedAs(Get(body, "action", None), action)
          /\ SanitizedAs(Get(body, "params", Dict(<<>>)), params)
    /\ ( /\ Sanitized
         /\ pc \in {"await", "done"}
         /\ action = S("create_watch")
         /\ Field(Field(body, "params"), "url") = ExampleUrl )
          =>
          /\ Len(calls) = 1
          /\ calls[1].method = "POST"
          /\ calls[1].url = FStr(<<BASE_URL, Lit("/api/v1/watch")>>)
          /\ Field(calls[1].json, "url") = ExampleUrlSanitized
          /\ ~HasKey(Field(body, "params"), "tag") =>
                calls[1].json = Dict(<< <<"url", ExampleUrlSanitized>> >>)

\* C7 witness: a nested input (a mapping in a sequence, its key holding a
\* stripped character) whose inner strings were changed.
C7_Witness ==
    /\ pc = "sanitized"
    /\ data.t = "list"
    /\ Len(data.v) = 1
    /\ data.v[1].t = "dict"
    /\ data.v[1].v[1][1] = "k;"
    /\ data.v[1].v[1][2].v[1] = Str(<<"<", " ">>)
    /\ once.v[1].v[1][1] = "k;"
    /\ once.v[1].v[1][2].v[1] = Str(<<>>)

----------------------------------------------------------------------------
(* C8 *)

\* The request asks for health_check
HealthRequest ==
    Parsed /\ body.t = "dict" /\ Field(body, "action") = S("health_check")

----------------------------------------------------------------------------
(* C9 *)

\* The tool's name is none of the 7 tools
UnknownTool == name \notin CoreActions

\* C9: call_tool never raises: for every name and every arguments value it
\* returns exactly one text content item; when the remote call fails, a
\* required argument is missing, the name is unknown or an unexpected error
\* occurs (arguments that is no mapping), the text starts with "Error:"; an
\* unknown name or a missing required argument causes no outbound call.
C9_ToolNeverRaises ==
    /\ pc # "tool_raised"
    /\ pc = "tool_await" => (~UnknownTool /\ ~Missing(name, arguments))
    /\ pc = "tool_done" =>
          /\ response.t = "list"
          /\ Len(response.v) = 1
          /\ Field(response.v[1], "type") = Lit("text")
          /\ (RemoteFailed \/ UnknownTool \/ Missing(name, arguments)) =>
                StartsWithError(Field(response.v[1], "text"))
          /\ (UnknownTool \/ Missing(name, arguments)) => calls = <<>>

\* C9 witness: arguments that is no mapping, answered with an Error text
\* and no call.
C9_Witness ==
    /\ pc = "tool_done"
    /\ name = S("trigger_check")
    /\ arguments = None
    /\ StartsWithError(Field(response.v[1], "text"))
    /\ calls = <<>>

----------------------------------------------------------------------------
(* C10 *)

\* The event's body is a str that is no JSON document
InvalidJson ==
    /\ event.t = "dict"
    /\ LET body_str == Get(event, "body", Json(Dict(<<>>)))
       IN  IsStr(body_str) /\ body_str.t # "json"

\* C10: for every non-OPTIONS request the status is 200 exactly when the
\* body has success = true; an invalid JSON body, a missing or non-enumerated
\* action and a missing required parameter give 400; a failed remote call
\* gives 500; every response with success = false has status 400 or 500.
C10_StatusClassification ==
    (pc = "done" /\ Field(event, "httpMethod") # S("OPTIONS")) =>
        /\ StatusCode = Num(200) <=> Get(Payload, "success", None) = Bool(TRUE)
        /\ Get(Payload, "success", None) = Bool(FALSE) =>
              StatusCode \in {Num(400), Num(500)}
        /\ InvalidJson => StatusCode = Num(400)
        /\ (Parsed /\ ~(body.t = "dict" /\ HasKey(body, "action"))) =>
              StatusCode = Num(400)
        /\ ( /\ Parsed
             /\ body.t = "dict"
             /\ HasKey(body, "action")
             /\ ~InList(Get(body, "action", None), valid_actions) )
              => StatusCode = Num(400)
        /\ (Sanitized /\ params.t = "dict" /\ Missing(action, params)) =>
              StatusCode = Num(400)
        /\ RemoteFailed => StatusCode = Num(500)

----------------------------------------------------------------------------
(* C11 *)

\* The enumerated action names, character by character
EnumeratedNames ==
    {Chars(n) : n \in {"list_watches", "get_watch", "create_watch",
                       "delete_watch", "trigger_check", "get_history",
                       "system_info", "health_check"}}

\* x is a str that is exactly an enumerated name
ExactName(x) == x.t = "str" /\ x.v \in EnumeratedNames

\* The action as the request's body carries it, before sanitization
RawAction == Field(body, "action")

\* The body is a mapping that carries an action
CarriesAction == Parsed /\ body.t = "dict" /\ HasKey(body, "action")

\* The request in flight is one of the HTTP front end
HttpStage == pc \in {"parse", "validate", "sanitize", "dispatch", "await", "done"}

\* C11: in the HTTP front end an outbound call is issued only after the body
\* was parsed and the raw action was found, exactly, in the enumerated set,
\* and it is the call of that action; a raw action that is not exactly an
\* enumerated name is answered 400 "Invalid action" with no outbound call,
\* also when sanitization would turn it into an enumerated name;
\* sanitization leaves an action that passed validation unchanged, so the
\* dispatcher is only given enumerated names and its "Unknown action"
\* branch is never taken.
C11_StageOrdering ==
    HttpStage =>
        /\ calls # <<>> =>
              /\ pc \in {"await", "done"}
              /\ CarriesAction
              /\ ExactName(RawAction)
              /\ Len(calls) = 1
              /\ calls[1] = ExpectedCall(RawAction, params)
        /\ pc \in {"sanitize", "dispatch", "await"} =>
              CarriesAction /\ ExactName(RawAction)
        /\ (pc = "done" /\ CarriesAction /\ ~ExactName(RawAction)) =>
              /\ StatusCode = Num(400)
              /\ Mentions(Get(Payload, "error", None), Lit("Invalid action: "))
              /\ calls = <<>>
              /\ ~Sanitized
        /\ Sanitized => action = RawAction /\ ExactName(action)
        /\ pc = "done" =>
              ~Mentions(Get(Payload, "error", None), Lit("Unknown action: "))

\* C11 witness: the raw action "get_watch;", which sanitization would turn
\* into get_watch, is answered 400 with no outbound call.
C11_Witness ==
    /\ pc = "done"
    /\ CarriesAction
    /\ RawAction = Str(Chars("get_watch") \o <<";">>)
    /\ sanitize_input(RawAction) = S("get_watch")
    /\ Present(Field(body, "params"), "watch_id")
    /\ StatusCode = Num(400)
    /\ calls = <<>>

====
